---------------------------- MODULE Spec2Model ----------------------------
(***************************************************************************)
(* Model of the two resource adapters of                                   *)
(* vault/resource_terraform_cloud_secret_backend_role.go:                  *)
(*   - the Terraform Cloud secret backend role (terraformCloudSecret...),  *)
(*   - the identity entity alias (identityEntityAlias...).                 *)
(* One behaviour follows one resource instance (a role or an alias): the   *)
(* host framework invokes one handler at a time, every remote call has a   *)
(* nondeterministic outcome (error, no object, object).                    *)
(* Strings are TLA+ strings; errors are records [fmt, args] holding the    *)
(* format string and the arguments given to fmt.Errorf / fmt.Sprintf.      *)
(***************************************************************************)
EXTENDS Integers, Sequences, FiniteSets, TLC

VARIABLES
    resource,   \* "role" or "alias": the kind of the resource instance; "path" in SpecPath
    d,          \* the *schema.ResourceData of the instance (id and attributes)
    old,        \* d as it was handed to the last handler
    calls,      \* the remote calls the last handler issued, in order
    ret,        \* what the last handler returned
    rt          \* SpecPath only: a (backend, name) pair and its round trip

vars == <<resource, d, old, calls, ret, rt>>

----------------------------------------------------------------------------
(* Errors and formatted strings.                                           *)

Errorf(fmt, args) == [fmt |-> fmt, args |-> args]

NoErr == [fmt |-> "<nil>", args |-> <<>>]

\* The error a failing remote call returns (the client's, opaque here).
RemoteErr == Errorf("remote call failed", <<>>)

\* A nil pointer dereference: the Go runtime panics, the handler does not return.
Panic == Errorf("panic: runtime error: invalid memory address or nil pointer dereference", <<>>)

----------------------------------------------------------------------------
(* Role paths: lines 13-16 and 205-229.                                    *)

RoleSep == "/role/"

RECURSIVE TrimLeft(_, _)
TrimLeft(s, c) ==
    IF Len(s) > 0 /\ SubSeq(s, 1, 1) = c THEN TrimLeft(SubSeq(s, 2, Len(s)), c) ELSE s

RECURSIVE TrimRight(_, _)
TrimRight(s, c) ==
    IF Len(s) > 0 /\ SubSeq(s, Len(s), Len(s)) = c
    THEN TrimRight(SubSeq(s, 1, Len(s) - 1), c)
    ELSE s

\* strings.Trim(s, c) for a one-character cutset.
Trim(s, c) == TrimRight(TrimLeft(s, c), c)

\* '.' of a Go regexp (no s flag) matches any character but a newline.
DotPlus(s) == Len(s) > 0 /\ \A i \in 1..Len(s) : SubSeq(s, i, i) # "\n"

\* The lengths k of the prefixes s[1..k] for which s = prefix "/role/" suffix with
\* prefix and suffix matching ".+": the ways ^.+/role/.+$ matches s.
RoleSplits(s) ==
    { k \in 1..Len(s) :
        /\ k + Len(RoleSep) < Len(s)
        /\ SubSeq(s, k + 1, k + Len(RoleSep)) = RoleSep
        /\ DotPlus(SubSeq(s, 1, k))
        /\ DotPlus(SubSeq(s, k + Len(RoleSep) + 1, Len(s))) }

SetMax(S) == CHOOSE x \in S : \A y \in S : y <= x

\* The first ".+" is greedy: the match Go reports is the one with the longest prefix.
GreedySplit(s) == SetMax(RoleSplits(s))

RoleSplit(s) == GreedySplit(s)

terraformCloudSecretBackendRolePath(backend, name) ==
    Trim(backend, "/") \o RoleSep \o name

\* Both return [val, err]; err = NoErr on success.
terraformCloudSecretBackendRoleNameFromPath(path) ==
    IF RoleSplits(path) = {}
    THEN [val |-> "", err |-> Errorf("no name found", <<>>)]
    ELSE [val |-> SubSeq(path, RoleSplit(path) + Len(RoleSep) + 1, Len(path)),
          err |-> NoErr]

terraformCloudSecretBackendRoleBackendFromPath(path) ==
    IF RoleSplits(path) = {}
    THEN [val |-> "", err |-> Errorf("no backend found", <<>>)]
    ELSE [val |-> SubSeq(path, 1, RoleSplit(path)), err |-> NoErr]


----------------------------------------------------------------------------
(* The remote API: client.Logical().Read / Write / Delete.  Every call     *)
(* returns an error, no object (a nil *api.Secret), or an object.          *)

OutErr == [kind |-> "err"]

OutNil == [kind |-> "nil"]

OutObj(data) == [kind |-> "obj", data |-> data]

Call(verb, path, data, out) == [verb |-> verb, path |-> path, data |-> data, out |-> out]

NoData == <<>>

\* The values of the map[string]interface{} of a response carry their dynamic
\* type: the handlers assert it (lines 320, 382, 447-451) and d.Set checks it
\* against the schema (lines 161-171, 384).  A key that is absent or null is nil.
StringValue(s) == [string |-> s]

IntValue(n) == [int |-> n]

MapValue(m) == [map |-> m]

ListValue(l) == [list |-> l]

NilValue == [nil |-> TRUE]

TypeOf(v) == CHOOSE t \in {"string", "int", "map", "list", "nil"} : t \in DOMAIN v

Val(v) == v[TypeOf(v)]

----------------------------------------------------------------------------
(* schema.ResourceData of a role: the schema of lines 29-77.               *)

RoleAttrs == {"name", "path", "backend", "organization", "team_id", "user_id", "max_ttl", "ttl"}

RoleRequired == {"name", "organization"}

\* The attributes with a schema Default (0): a description that leaves them out
\* still yields a value, so the framework's readers report them as set.
RoleDefaulted == {"max_ttl", "ttl"}

EmptyMap == [k \in {} |-> ""]

\* The zero value of an attribute's type.
Zero(k) ==
    IF k \in {"max_ttl", "ttl"} THEN 0
    ELSE IF k = "custom_metadata" THEN EmptyMap
    ELSE ""

EmptyRole ==
    [id |-> "", name |-> "", path |-> "", backend |-> "", organization |-> "",
     team_id |-> "", user_id |-> "", max_ttl |-> 0, ttl |-> 0, present |-> {}]

\* d.GetOk(k): the value is set to something other than its zero value.
GetOk(rd, k) == k \in rd.present /\ rd[k] # Zero(k)

\* d.GetOkExists(k): the value is set, the zero value included.
GetOkExists(rd, k) == k \in rd.present

\* Lines 29-77 and 254-280: the Type of an attribute's schema.
SchemaType(k) ==
    IF k \in {"max_ttl", "ttl"} THEN "int"
    ELSE IF k = "custom_metadata" THEN "map"
    ELSE "string"

\* The attribute k of d takes the value v.
SetField(rd, k, v) == [rd EXCEPT ![k] = v, !.present = @ \cup {k}]

\* The error d.Set returns for a value its attribute's type cannot hold.
SetErr(k) == Errorf("d.Set failed", <<k>>)

\* d.Set(k, v).  A nil value sets the attribute's zero value, a value of the
\* attribute's type sets it, and any other value leaves the attribute as it was
\* and returns an error.  Returns [d, err].
Set(rd, k, v) ==
    IF TypeOf(v) = "nil" THEN [d |-> SetField(rd, k, Zero(k)), err |-> NoErr]
    ELSE IF TypeOf(v) = SchemaType(k) THEN [d |-> SetField(rd, k, Val(v)), err |-> NoErr]
    ELSE [d |-> rd, err |-> SetErr(k)]

\* d.SetId(id).

SetId(rd, id) == [rd EXCEPT !.id = id]

\* The ResourceData the framework hands to Create/Update: the attributes of the
\* description cfg (cfg.set names the optional attributes it sets), the defaults
\* of the schema, and the identity of the stored state rd.
RoleResourceData(rd, cfg) ==
    [id |-> rd.id, name |-> cfg.name, path |-> cfg.path, backend |-> cfg.backend,
     organization |-> cfg.organization, team_id |-> cfg.team_id,
     user_id |-> cfg.user_id, max_ttl |-> cfg.max_ttl, ttl |-> cfg.ttl,
     present |-> rd.present \cup cfg.set \cup RoleRequired \cup RoleDefaulted]

\* A faulty variant: the schema without its ConflictsWith declarations.
NoConflictsWith(k) == {}

\* Lines 41 and 48: the attributes the schema declares k to conflict with.
ConflictsWith(k) ==
    IF k = "path" THEN {"backend"}
    ELSE IF k = "backend" THEN {"path"}
    ELSE {}

\* The validation of a description against the declarations, which the framework
\* runs before it calls a handler.  Its code is outside this repository's source;
\* the specification gives its effect: "validate exactly one of {backend,
\* deprecated path} is set (fails with ConfigurationError otherwise)".
ValidateConflicts(cfg) == \E k \in cfg.set : ConflictsWith(k) \cap cfg.set # {}

\* The specification's "ConfigurationError (... ambiguous backend/path)".
ConfigurationError == Errorf("ConfigurationError: ambiguous backend/path", <<>>)

----------------------------------------------------------------------------
(* The role handlers, lines 81-203.  Each returns [d, calls, err] (Exists  *)
(* also the boolean): the ResourceData as the handler leaves it, the       *)
(* remote calls it issued and the error it returns.                        *)

terraformCloudSecretBackendRoleGetBackend(rd) ==
    IF GetOk(rd, "backend") THEN rd.backend
    ELSE IF GetOk(rd, "path") THEN rd.path
    ELSE ""

\* A faulty variant: a not-found role Read that drops the identity.
RoleNotFoundClears(rd) == SetId(rd, "")

\* What role Read does to d when the remote object is absent (lines 156-158):
\* nothing.
RoleNotFound(rd) == rd

\* Lines 160-171: the fields copied back into d.  The result of every d.Set is
\* dropped: a value an attribute cannot hold leaves the attribute as it was.
RoleCopyBack(rd, name, backend, data) ==
    LET d1 == Set(rd, "name", StringValue(name)).d
        d2 == IF GetOk(d1, "path") THEN Set(d1, "path", StringValue(backend)).d
              ELSE Set(d1, "backend", StringValue(backend)).d
        d3 == Set(d2, "organization", data.organization).d
        d4 == Set(d3, "team_id", data.team_id).d
        d5 == Set(d4, "user_id", data.user_id).d
        d6 == Set(d5, "max_ttl", data.max_ttl).d
    IN  Set(d6, "ttl", data.ttl).d

\* rd: the ResourceData; r: the outcome of the remote read, if it is issued.
terraformCloudSecretBackendRoleRead(rd, r) ==
    LET path    == rd.id
        name    == terraformCloudSecretBackendRoleNameFromPath(path)
        backend == terraformCloudSecretBackendRoleBackendFromPath(path)
        call    == Call("Read", path, NoData, r)
    IN  IF name.err # NoErr
        THEN [d |-> SetId(rd, ""), calls |-> <<>>,
              err |-> Errorf("invalid role ID %q: %s", <<path, name.err>>)]
        ELSE IF backend.err # NoErr
        THEN [d |-> SetId(rd, ""), calls |-> <<>>,
              err |-> Errorf("invalid role ID %q: %s", <<path, backend.err>>)]
        ELSE IF r.kind = "err"
        THEN [d |-> rd, calls |-> <<call>>,
              err |-> Errorf("error reading role configuration for %q: %s", <<path, RemoteErr>>)]
        ELSE IF r.kind = "nil"
        THEN [d |-> RoleNotFound(rd), calls |-> <<call>>,
              err |-> Errorf("resource not found", <<>>)]
        ELSE [d |-> RoleCopyBack(rd, name.val, backend.val, r.data),
              calls |-> <<call>>, err |-> NoErr]

RolePayloadKeys == {"max_ttl", "ttl", "organization", "team_id", "user_id"}

\* A faulty variant: the payload built with GetOk, which leaves zero values out.
RolePayloadNonZero(rd) ==
    [k \in {x \in RolePayloadKeys : GetOk(rd, x)} |-> rd[k]]

\* Lines 103-119: a key is in the payload when GetOkExists reports it set.
RolePayload(rd) ==
    [k \in {x \in RolePayloadKeys : GetOkExists(rd, x)} |-> rd[k]]

\* w: the outcome of the remote write; r: the outcome of the read that follows.
terraformCloudSecretBackendRoleWrite(rd, w, r) ==
    LET name    == rd.name
        backend == terraformCloudSecretBackendRoleGetBackend(rd)
        path    == terraformCloudSecretBackendRolePath(backend, name)
        call    == Call("Write", path, RolePayload(rd), w)
    IN  IF backend = ""
        THEN [d |-> rd, calls |-> <<>>,
              err |-> Errorf("No backend specified for Terraform Cloud secret backend role %s",
                             <<name>>)]
        ELSE IF w.kind = "err"
        THEN [d |-> rd, calls |-> <<call>>,
              err |-> Errorf("error writing role configuration for %q: %s", <<path, RemoteErr>>)]
        ELSE LET read == terraformCloudSecretBackendRoleRead(SetId(rd, path), r)
             IN  [d |-> read.d, calls |-> <<call>> \o read.calls, err |-> read.err]

\* A faulty variant: the error of the remote delete is dropped.
RoleDeleteIgnoringError(rd, x) ==
    [d |-> rd, calls |-> <<Call("Delete", rd.id, NoData, x)>>, err |-> NoErr]

terraformCloudSecretBackendRoleDelete(rd, x) ==
    LET path == rd.id
        call == Call("Delete", path, NoData, x)
    IN  IF x.kind = "err"
        THEN [d |-> rd, calls |-> <<call>>,
              err |-> Errorf("error deleting Terraform Cloud backend role at %q: %s",
                             <<path, RemoteErr>>)]
        ELSE [d |-> rd, calls |-> <<call>>, err |-> NoErr]

terraformCloudSecretBackendRoleExists(rd, r) ==
    LET path == rd.id
        call == Call("Read", path, NoData, r)
    IN  IF r.kind = "err"
        THEN [d |-> rd, calls |-> <<call>>, exists |-> FALSE,
              err |-> Errorf("error reading role configuration for %q: %s", <<path, RemoteErr>>)]
        ELSE [d |-> rd, calls |-> <<call>>, exists |-> r.kind # "nil", err |-> NoErr]

----------------------------------------------------------------------------
(* schema.ResourceData of an entity alias: the schema of lines 254-280.    *)

identityEntityAliasPath == "/identity/entity-alias"

identityEntityAliasNamePath(name) == identityEntityAliasPath \o "/name/" \o name

identityEntityAliasIDPath(id) == identityEntityAliasPath \o "/id/" \o id

\* Defined in another file of the repository; the path is the one the
\* specification gives for the recovery read.
identityEntityIDPath(id) == "/identity/entity-id/" \o id

AliasRequired == {"name", "mount_accessor", "canonical_id"}

AliasKeys == <<"name", "mount_accessor", "canonical_id", "custom_metadata">>

EmptyAlias ==
    [id |-> "", name |-> "", mount_accessor |-> "", canonical_id |-> "",
     custom_metadata |-> EmptyMap, present |-> {}]

\* The ResourceData the framework hands to alias Create/Update.
AliasResourceData(rd, cfg) ==
    [id |-> rd.id, name |-> cfg.name, mount_accessor |-> cfg.mount_accessor,
     canonical_id |-> cfg.canonical_id, custom_metadata |-> cfg.custom_metadata,
     present |-> rd.present \cup cfg.set \cup AliasRequired]

\* The panic of a failed type assertion x.(t).
AssertPanic(t) == Errorf("panic: interface conversion: interface {} is not %s", <<t>>)

\* The handler did not return: it panicked.
IsPanic(err) == Len(err.fmt) >= 6 /\ SubSeq(err.fmt, 1, 6) = "panic:"

----------------------------------------------------------------------------
(* The alias handlers, lines 284-457.                                      *)

Sprintf(fmt, args) == [fmt |-> fmt, args |-> args]

\* Line 450: both fields of the entry are strings equal to the ones asked for.
AliasMatches(alias, name, mountAccessor) ==
    alias.name = StringValue(name) /\ alias.mount_accessor = StringValue(mountAccessor)

\* Lines 448-453: the scan of the list, entry by entry.  An entry that is not a
\* map panics (line 449), whether or not a later entry matches; the first entry
\* that matches ends the scan with its id, or panics when its id is not a string
\* (line 451).  Returns [found, val, err].
RECURSIVE FirstMatch(_, _, _)
FirstMatch(aliases, name, mountAccessor) ==
    IF aliases = <<>> THEN [found |-> FALSE, val |-> "", err |-> NoErr]
    ELSE IF TypeOf(Head(aliases)) # "map"
    THEN [found |-> FALSE, val |-> "", err |-> AssertPanic("map[string]interface {}")]
    ELSE IF AliasMatches(Val(Head(aliases)), name, mountAccessor)
    THEN IF TypeOf(Val(Head(aliases)).id) = "string"
         THEN [found |-> TRUE, val |-> Val(Val(Head(aliases)).id), err |-> NoErr]
         ELSE [found |-> FALSE, val |-> "", err |-> AssertPanic("string")]
    ELSE FirstMatch(Tail(aliases), name, mountAccessor)

\* e: the outcome of the read of the entity.  Returns [val, err, calls]; an err
\* that is a panic stands for the call not returning.
findAliasID(canonicalID, name, mountAccessor, e) ==
    LET path     == identityEntityIDPath(canonicalID)
        call     == Call("Read", path, NoData, e)
        notFound == Errorf("unable to determine alias ID. canonical ID: %q  name: %q  mountAccessor: %q",
                           <<canonicalID, name, mountAccessor>>)
    IN  IF e.kind = "err"
        THEN [val |-> "", calls |-> <<call>>,
              err |-> Errorf("error reading entity aliases: %s", <<RemoteErr>>)]
        ELSE IF e.kind = "nil"
        THEN [val |-> "", calls |-> <<call>>, err |-> notFound]
        ELSE IF TypeOf(e.data.aliases) # "list"
        THEN [val |-> "", calls |-> <<call>>, err |-> AssertPanic("[]interface {}")]   \* line 447
        ELSE LET scan == FirstMatch(Val(e.data.aliases), name, mountAccessor)
             IN  IF scan.err # NoErr
                 THEN [val |-> "", calls |-> <<call>>, err |-> scan.err]
                 ELSE IF scan.found
                 THEN [val |-> scan.val, calls |-> <<call>>, err |-> NoErr]
                 ELSE [val |-> "", calls |-> <<call>>, err |-> notFound]

\* A faulty variant: an absent alias reported as an error, the identity kept.
AliasNotFoundFails(rd) == [d |-> rd, err |-> Errorf("resource not found", <<>>)]

\* Lines 376-380: an absent alias is dropped from the state, without error.
AliasNotFound(rd) == [d |-> SetId(rd, ""), err |-> NoErr]

\* Lines 383-387: the attributes are copied in the order of keys; the first d.Set
\* that fails ends the loop with its error, the attributes before it copied and
\* the others as they were.  id is the identity Read started with (line 366).
RECURSIVE AliasCopyBack(_, _, _, _)
AliasCopyBack(rd, keys, data, id) ==
    IF keys = <<>> THEN [d |-> rd, err |-> NoErr]
    ELSE LET k   == Head(keys)
             set == Set(rd, k, data[k])
         IN  IF set.err # NoErr
             THEN [d |-> set.d,
                   err |-> Errorf("error setting state key %q on IdentityEntityAlias %q:  err=%q",
                                  <<k, id, set.err>>)]
             ELSE AliasCopyBack(set.d, Tail(keys), data, id)

identityEntityAliasRead(rd, r) ==
    LET id   == rd.id
        path == identityEntityAliasIDPath(id)
        call == Call("Read", path, NoData, r)
    IN  IF r.kind = "err"
        THEN [d |-> rd, calls |-> <<call>>,
              err |-> Errorf("error reading IdentityEntityAlias %q: %s", <<id, RemoteErr>>)]
        ELSE IF r.kind = "nil"
        THEN [d |-> AliasNotFound(rd).d, calls |-> <<call>>, err |-> AliasNotFound(rd).err]
        ELSE IF TypeOf(r.data.id) # "string"
        THEN [d |-> rd, calls |-> <<call>>, err |-> AssertPanic("string")]   \* line 382
        ELSE LET copy == AliasCopyBack(SetId(rd, Val(r.data.id)), AliasKeys, r.data, id)
             IN  [d |-> copy.d, calls |-> <<call>>, err |-> copy.err]

\* Lines 308-312.
AliasIDMsg(find) ==
    IF find.err = NoErr
    THEN Sprintf("Alias resource ID %q may be imported.", <<find.val>>)
    ELSE Sprintf("Unable to determine alias id.", <<>>)

\* w: the outcome of the write; e: of the entity read of the merge case; r: of
\* the read that follows a write that returned an id.
identityEntityAliasCreate(rd, w, e, r) ==
    LET name           == rd.name
        mountAccessor  == rd.mount_accessor
        canonicalID    == rd.canonical_id
        customMetadata == rd.custom_metadata
        path           == identityEntityAliasPath
        data           == [name |-> StringValue(name),
                           mount_accessor |-> StringValue(mountAccessor),
                           canonical_id |-> StringValue(canonicalID),
                           custom_metadata |-> MapValue(customMetadata)]
        call           == Call("Write", path, data, w)
    IN  IF w.kind = "err"
        THEN [d |-> rd, calls |-> <<call>>,
              err |-> Errorf("error writing IdentityEntityAlias to %q: %s", <<name, RemoteErr>>)]
        ELSE IF w.kind = "nil"
        THEN LET find == findAliasID(canonicalID, name, mountAccessor, e)
             IN  IF IsPanic(find.err)
                 THEN [d |-> rd, calls |-> <<call>> \o find.calls, err |-> find.err]
                 ELSE [d |-> rd, calls |-> <<call>> \o find.calls,
                       err |-> Errorf("IdentityEntityAlias %q already exists. %s",
                                      <<name, AliasIDMsg(find)>>)]
        ELSE IF TypeOf(w.data.id) # "string"
        THEN [d |-> rd, calls |-> <<call>>, err |-> AssertPanic("string")]   \* line 320
        ELSE LET read == identityEntityAliasRead(SetId(rd, Val(w.data.id)), r)
             IN  [d |-> read.d, calls |-> <<call>> \o read.calls, err |-> read.err]

\* A faulty variant: the description's values always win, set or not.
AliasOverlayAlways(rd, k, current) == StringValue(rd[k])

\* Lines 336-350: the value written for k: the description's when set, else the
\* value just read.
AliasOverlay(rd, k, current) == IF GetOk(rd, k) THEN StringValue(rd[k]) ELSE current[k]

\* r1: the outcome of the first read; w: of the write; r2: of the last read.
identityEntityAliasUpdate(rd, r1, w, r2) ==
    LET id    == rd.id
        path  == identityEntityAliasIDPath(id)
        call1 == Call("Read", path, NoData, r1)
        data  == [name |-> AliasOverlay(rd, "name", r1.data),
                  mount_accessor |-> AliasOverlay(rd, "mount_accessor", r1.data),
                  canonical_id |-> AliasOverlay(rd, "canonical_id", r1.data),
                  custom_metadata |-> MapValue(rd.custom_metadata)]
        call2 == Call("Write", path, data, w)
    IN  IF r1.kind = "err"
        THEN [d |-> rd, calls |-> <<call1>>,
              err |-> Errorf("error updating IdentityEntityAlias %q: %s", <<id, RemoteErr>>)]
        ELSE IF r1.kind = "nil"
        THEN [d |-> rd, calls |-> <<call1>>, err |-> Panic]   \* resp.Data of a nil resp
        ELSE IF w.kind = "err"
        THEN [d |-> rd, calls |-> <<call1, call2>>,
              err |-> Errorf("error updating IdentityEntityAlias %q: %s", <<id, RemoteErr>>)]
        ELSE LET read == identityEntityAliasRead(rd, r2)
             IN  [d |-> read.d, calls |-> <<call1, call2>> \o read.calls, err |-> read.err]

identityEntityAliasDelete(rd, x) ==
    LET id   == rd.id
        path == identityEntityAliasIDPath(id)
        call == Call("Delete", path, NoData, x)
    IN  IF x.kind = "err"
        THEN [d |-> rd, calls |-> <<call>>,
              err |-> Errorf("error IdentityEntityAlias %q", <<id>>)]
        ELSE [d |-> rd, calls |-> <<call>>, err |-> NoErr]

\* A faulty variant: the id-indexed path whatever the id.
AliasExistsPathByID(rd) == identityEntityAliasIDPath(rd.id)

\* Lines 411-418: the name-indexed path when no id is set.
AliasExistsPath(rd) ==
    IF Len(rd.id) = 0 THEN identityEntityAliasNamePath(rd.name)
    ELSE identityEntityAliasIDPath(rd.id)

identityEntityAliasExists(rd, r) ==
    LET id   == rd.id
        key  == IF Len(id) = 0 THEN rd.name ELSE id
        call == Call("Read", AliasExistsPath(rd), NoData, r)
    IN  IF r.kind = "err"
        THEN [d |-> rd, calls |-> <<call>>, exists |-> TRUE,
              err |-> Errorf("error checking if IdentityEntityAlias %q exists: %s",
                             <<key, RemoteErr>>)]
        ELSE [d |-> rd, calls |-> <<call>>, exists |-> r.kind # "nil", err |-> NoErr]

----------------------------------------------------------------------------
(* The values the handlers are exercised with.                             *)

\* The longest list of aliases an entity read returns.
MaxAliases == 2

\* The most pieces a backend or a name of SpecPath is concatenated from.
MaxPieces == 3

RoleNames == {"admin", "role/x"}

\* <<backend, path>>: one of them, none, both; a backend with a trailing slash
\* and one that is only a slash.
RoleBackends ==
    {<<"tfc", "">>, <<"tfc/", "">>, <<"/", "">>, <<"", "old">>, <<"", "">>, <<"tfc", "old">>}

\* ttl and max_ttl of a description; 0 stands for "0" and for "not set", which
\* the schema's Default makes the same ResourceData.
RoleTTLs == {0, 300}

RoleMaxTTLs == {0, 600}

RoleDescriptions ==
    { [name |-> n, backend |-> bp[1], path |-> bp[2], organization |-> "org",
       team_id |-> t, user_id |-> "", max_ttl |-> m, ttl |-> tt,
       set |-> {k \in RoleAttrs :
                   \/ k = "backend" /\ bp[1] # ""
                   \/ k = "path" /\ bp[2] # ""
                   \/ k = "team_id" /\ t # ""
                   \/ k = "max_ttl" /\ m # 0
                   \/ k = "ttl" /\ tt # 0}] :
      n \in RoleNames, bp \in RoleBackends, t \in {"", "team-1"}, m \in RoleMaxTTLs,
      tt \in RoleTTLs }

RoleObject(organization, teamID, userID, maxTTL, ttl) ==
    [organization |-> organization, team_id |-> teamID, user_id |-> userID,
     max_ttl |-> maxTTL, ttl |-> ttl]

\* The role objects whose every field has the type the schema expects.
TypedRoles ==
    { RoleObject(StringValue("org"), StringValue(""), StringValue(""), IntValue(0), IntValue(0)),
      RoleObject(StringValue("org"), StringValue("team-1"), StringValue(""),
                 IntValue(600), IntValue(300)),
      RoleObject(StringValue("org2"), StringValue(""), StringValue("user-1"),
                 IntValue(0), IntValue(300)) }

\* Objects with a field left out or of another type than the schema's.
UntypedRoles ==
    { RoleObject(StringValue("org2"), NilValue, StringValue(""), IntValue(600),
                 StringValue("oops")),
      RoleObject(MapValue([env |-> "prod"]), StringValue("team-1"), StringValue(""),
                 IntValue(0), IntValue(300)) }

RemoteRoles == TypedRoles \cup UntypedRoles

RoleImportIDs == {"tfc/role/admin", "old/role/role/x", "garbage"}

AliasIDs == {"a1", "a2"}

AliasMetadata == {EmptyMap, [env |-> "dev"], [env |-> "dev", team |-> "a"]}

AliasDescriptions ==
    { [name |-> n, mount_accessor |-> m, canonical_id |-> c, custom_metadata |-> cm,
       set |-> IF cm = EmptyMap THEN {} ELSE {"custom_metadata"}] :
      n \in {"", "alice"}, m \in {"", "m1"}, c \in {"", "e1"}, cm \in AliasMetadata }

\* The alias objects whose every field has the type the schema expects.
TypedAliases ==
    { [id |-> StringValue(i), name |-> StringValue(n),
       mount_accessor |-> StringValue("m2"), canonical_id |-> StringValue("e2"),
       custom_metadata |-> MapValue(cm)] :
      i \in AliasIDs, n \in {"alice", "bob"}, cm \in {EmptyMap, [env |-> "prod"]} }

\* Objects with a field left out or of another type than the schema's.
UntypedAliases ==
    { [id |-> StringValue("a1"), name |-> StringValue("bob"),
       mount_accessor |-> StringValue("m2"), canonical_id |-> StringValue("e2"),
       custom_metadata |-> StringValue("oops")],
      [id |-> StringValue("a2"), name |-> StringValue("bob"),
       mount_accessor |-> MapValue([env |-> "prod"]), canonical_id |-> StringValue("e2"),
       custom_metadata |-> MapValue([env |-> "prod"])],
      [id |-> StringValue("a1"), name |-> StringValue("bob"),
       mount_accessor |-> StringValue("m2"), canonical_id |-> StringValue("e2"),
       custom_metadata |-> NilValue],
      [id |-> NilValue, name |-> StringValue("bob"),
       mount_accessor |-> StringValue("m2"), canonical_id |-> StringValue("e2"),
       custom_metadata |-> MapValue(EmptyMap)] }

RemoteAliases == TypedAliases \cup UntypedAliases

\* An entry of an entity's alias list; a field left out is nil.
EntityAlias(id, name, mountAccessor) ==
    MapValue([id |-> id, name |-> name, mount_accessor |-> mountAccessor])

\* The entries of an entity's alias list: maps with a string id, a map without
\* id, and an entry that is no map.
EntityAliases ==
    { EntityAlias(StringValue(i), StringValue("alice"), StringValue("m1")) : i \in AliasIDs } \cup
    { EntityAlias(StringValue("a1"), StringValue("bob"), StringValue("m1")),
      EntityAlias(StringValue("a2"), StringValue("alice"), StringValue("m2")),
      EntityAlias(NilValue, StringValue("alice"), StringValue("m1")),
      StringValue("x") }

SeqsUpTo(S, n) == UNION { [1..k -> S] : k \in 0..n }

\* The entity objects: with a list of aliases, and without the key aliases.
RemoteEntities ==
    { [aliases |-> ListValue(l)] : l \in SeqsUpTo(EntityAliases, MaxAliases) } \cup
    { [aliases |-> NilValue] }

\* The outcomes of a write or a delete whose response the handler ignores.
WriteOuts == {OutErr, OutNil}

RoleReadOuts == {OutErr, OutNil} \cup { OutObj(o) : o \in RemoteRoles }

AliasReadOuts == {OutErr, OutNil} \cup { OutObj(o) : o \in RemoteAliases }

AliasCreateOuts ==
    {OutErr, OutNil, OutObj([id |-> NilValue])} \cup
    { OutObj([id |-> StringValue(i)]) : i \in AliasIDs }

EntityReadOuts == {OutErr, OutNil} \cup { OutObj(o) : o \in RemoteEntities }

\* The outcomes that matter for a call that is reached only when `needed`.
Reached(needed, outs) == IF needed THEN outs ELSE {OutErr}

----------------------------------------------------------------------------
(* The state machine: the framework invokes one handler at a time.         *)

NoRoundTrip == [stage |-> "none"]

NoRet == [op |-> "none", err |-> NoErr, exists |-> FALSE]

Init ==
    /\ resource \in {"role", "alias"}
    /\ d = IF resource = "role" THEN EmptyRole ELSE EmptyAlias
    /\ old = d
    /\ calls = <<>>
    /\ ret = NoRet
    /\ rt = NoRoundTrip

\* The framework is between two operations: no handler result is pending.
Idle == ret.op = "none"

\* The handler op, handed d0, returned res.
Returned(op, d0, res) ==
    /\ Idle
    /\ d' = res.d
    /\ old' = d0
    /\ calls' = res.calls
    /\ ret' = [op |-> op, err |-> res.err,
               exists |-> IF op = "Exists" THEN res.exists ELSE FALSE]
    /\ UNCHANGED <<resource, rt>>

\* Create and Update of a role: a description that sets two attributes the schema
\* declares conflicting (lines 41, 48) is refused before the handler is called;
\* any other runs terraformCloudSecretBackendRoleWrite on its ResourceData.
RoleApply(op, cfg, w, r) ==
    LET d0 == RoleResourceData(d, cfg)
    IN  IF ValidateConflicts(cfg)
        THEN Returned(op, d0, [d |-> d, calls |-> <<>>, err |-> ConfigurationError])
        ELSE Returned(op, d0, terraformCloudSecretBackendRoleWrite(d0, w, r))

RoleCreate ==
    /\ resource = "role"
    /\ d.id = ""
    /\ \E cfg \in RoleDescriptions, w \in WriteOuts :
         \E r \in Reached(w.kind # "err", RoleReadOuts) :
            RoleApply("Create", cfg, w, r)

\* name and backend are ForceNew: an Update keeps them.
RoleUpdate ==
    /\ resource = "role"
    /\ d.id # ""
    /\ \E cfg \in RoleDescriptions, w \in WriteOuts :
         /\ cfg.name = d.name
         /\ cfg.backend = d.backend
         /\ \E r \in Reached(w.kind # "err", RoleReadOuts) :
               RoleApply("Update", cfg, w, r)

RoleRead ==
    /\ resource = "role"
    /\ \E r \in RoleReadOuts : Returned("Read", d, terraformCloudSecretBackendRoleRead(d, r))

RoleDelete ==
    /\ resource = "role"
    /\ \E x \in WriteOuts : Returned("Delete", d, terraformCloudSecretBackendRoleDelete(d, x))

RoleExists ==
    /\ resource = "role"
    /\ \E r \in RoleReadOuts : Returned("Exists", d, terraformCloudSecretBackendRoleExists(d, r))

\* schema.ImportStatePassthrough (lines 25-27): the given string becomes the id.
RoleImport ==
    /\ resource = "role"
    /\ d = EmptyRole
    /\ \E id \in RoleImportIDs :
         Returned("Import", d, [d |-> SetId(d, id), calls |-> <<>>, err |-> NoErr])

AliasCreate ==
    /\ resource = "alias"
    /\ d.id = ""
    /\ \E cfg \in AliasDescriptions, w \in AliasCreateOuts :
         \E e \in Reached(w.kind = "nil", EntityReadOuts),
            r \in Reached(w.kind = "obj", AliasReadOuts) :
            LET d0 == AliasResourceData(d, cfg)
            IN  Returned("Create", d0, identityEntityAliasCreate(d0, w, e, r))

AliasUpdate ==
    /\ resource = "alias"
    /\ d.id # ""
    /\ \E cfg \in AliasDescriptions, r1 \in AliasReadOuts :
         \E w \in Reached(r1.kind = "obj", WriteOuts) :
            \E r2 \in Reached(r1.kind = "obj" /\ w.kind # "err", AliasReadOuts) :
               LET d0 == AliasResourceData(d, cfg)
               IN  Returned("Update", d0, identityEntityAliasUpdate(d0, r1, w, r2))

AliasRead ==
    /\ resource = "alias"
    /\ \E r \in AliasReadOuts : Returned("Read", d, identityEntityAliasRead(d, r))

AliasDelete ==
    /\ resource = "alias"
    /\ \E x \in WriteOuts : Returned("Delete", d, identityEntityAliasDelete(d, x))

AliasExists ==
    /\ resource = "alias"
    /\ \E r \in AliasReadOuts : Returned("Exists", d, identityEntityAliasExists(d, r))

\* schema.ImportStatePassthrough (lines 250-252).
AliasImport ==
    /\ resource = "alias"
    /\ d = EmptyAlias
    /\ \E id \in AliasIDs :
         Returned("Import", d, [d |-> SetId(d, id), calls |-> <<>>, err |-> NoErr])

\* The framework takes the result of the handler: what remains is d.
Acknowledge ==
    /\ ~Idle
    /\ old' = d
    /\ calls' = <<>>
    /\ ret' = NoRet
    /\ UNCHANGED <<resource, d, rt>>

Next ==
    \/ Acknowledge
    \/ RoleCreate
    \/ RoleUpdate
    \/ RoleRead
    \/ RoleDelete
    \/ RoleExists
    \/ RoleImport
    \/ AliasCreate
    \/ AliasUpdate
    \/ AliasRead
    \/ AliasDelete
    \/ AliasExists
    \/ AliasImport

Spec == Init /\ [][Next]_vars

----------------------------------------------------------------------------
(* The role path functions on their own: a (backend, name) pair, the path  *)
(* built from it, and the backend and the name parsed back out of it.      *)

Pieces == {"/", "role", "a", "b"}

RECURSIVE Concat(_)
Concat(q) == IF q = <<>> THEN "" ELSE Head(q) \o Concat(Tail(q))

PathStrings == { Concat(q) : q \in SeqsUpTo(Pieces, MaxPieces) }

InitPath ==
    /\ resource = "path"
    /\ d = EmptyRole
    /\ old = d
    /\ calls = <<>>
    /\ ret = NoRet
    /\ rt \in { [stage |-> "input", backend |-> b, name |-> n] :
                b \in PathStrings, n \in PathStrings }

BuildPath ==
    /\ rt.stage = "input"
    /\ rt' = [stage |-> "path", backend |-> rt.backend, name |-> rt.name,
              path |-> terraformCloudSecretBackendRolePath(rt.backend, rt.name)]
    /\ UNCHANGED <<resource, d, old, calls, ret>>

ParsePath ==
    /\ rt.stage = "path"
    /\ rt' = [stage |-> "parsed", backend |-> rt.backend, name |-> rt.name,
              path |-> rt.path,
              gotBackend |-> terraformCloudSecretBackendRoleBackendFromPath(rt.path),
              gotName |-> terraformCloudSecretBackendRoleNameFromPath(rt.path)]
    /\ UNCHANGED <<resource, d, old, calls, ret>>

NextPath ==
    \/ BuildPath
    \/ ParsePath

SpecPath == InitPath /\ [][NextPath]_vars

----------------------------------------------------------------------------
(* The claims.                                                             *)

\* A valid pair: the backend is not empty once its slashes are trimmed, the
\* name is not empty.
ValidPair == Trim(rt.backend, "/") # "" /\ rt.name # ""

\* C1: for every valid (backend, name), parsing the path built from the pair
\* returns, without error, the trimmed backend and the name.
C1_RoundTrip ==
    (rt.stage = "parsed" /\ ValidPair) =>
        /\ rt.gotBackend.err = NoErr
        /\ rt.gotName.err = NoErr
        /\ rt.gotBackend.val = Trim(rt.backend, "/")
        /\ rt.gotName.val = rt.name

Last(q) == q[Len(q)]

RoleWriteOp == resource = "role" /\ ret.op \in {"Create", "Update"}

NotFoundErr == Errorf("resource not found", <<>>)

\* The last remote call of the role handler that returned was the read of Read
\* (Read itself, or the re-read that ends Create/Update), and it found no object.
RoleReadAbsent ==
    /\ resource = "role"
    /\ ret.op \in {"Read", "Create", "Update"}
    /\ calls # <<>>
    /\ Last(calls).verb = "Read"
    /\ Last(calls).out.kind = "nil"

\* C2 as stated: a role Read that finds no object fails with a not-found error and
\* leaves the local identity empty.
C2_RoleReadAbsentClearsId ==
    RoleReadAbsent => (ret.err = NotFoundErr /\ d.id = "")

\* C2 amended: a role Read that finds no object fails with a not-found error and
\* leaves the local identity as it was: the well-formed path that was read
\* (for the re-read of Create/Update, the path just written), d otherwise untouched.
C2_RoleReadAbsentKeepsId ==
    RoleReadAbsent =>
        /\ ret.err = NotFoundErr
        /\ d.id # ""
        /\ d.id = Last(calls).path
        /\ d = SetId(old, d.id)
        /\ (ret.op = "Read" => d.id = old.id)

C2_Witness == RoleReadAbsent /\ ret.op = "Read" /\ d.id = "tfc/role/admin"

\* alias Read was called and its remote read found no object.
AliasReadAbsent ==
    /\ resource = "alias"
    /\ ret.op = "Read"
    /\ calls # <<>>
    /\ Last(calls).out.kind = "nil"

\* C3: an alias Read whose remote read at /identity/entity-alias/id/{id} finds no
\* object returns no error, leaves the local identity empty and changes no attribute.
C3_AliasReadAbsent ==
    AliasReadAbsent =>
        /\ calls = <<Call("Read", "/identity/entity-alias/id/" \o old.id, NoData, OutNil)>>
        /\ ret.err = NoErr
        /\ d.id = ""
        /\ d = SetId(old, "")

C3_Witness ==
    AliasReadAbsent /\ old.id # "" /\ old.name # "" /\ old.custom_metadata # EmptyMap

C4_WitnessNeither ==
    RoleWriteOp /\ old.backend = "" /\ old.path = "" /\ ret.err.args = <<"admin">>

\* alias Create's write returned no error and an empty response.
AliasMergeCase ==
    /\ resource = "alias"
    /\ ret.op = "Create"
    /\ calls # <<>>
    /\ calls[1].verb = "Write"
    /\ calls[1].out.kind = "nil"

\* The entity read of the merge case returned the object `entity`.
AliasMergeRead ==
    /\ AliasMergeCase
    /\ Len(calls) = 2
    /\ calls[2].out.kind = "obj"

\* The positions of the entity's alias list that hold an alias with the name and
\* the mount accessor of the description.
AliasMergeMatches ==
    IF AliasMergeRead /\ TypeOf(calls[2].out.data.aliases) = "list"
    THEN LET aliases == Val(calls[2].out.data.aliases)
         IN  { i \in 1..Len(aliases) :
                 /\ TypeOf(aliases[i]) = "map"
                 /\ AliasMatches(Val(aliases[i]), old.name, old.mount_accessor) }
    ELSE {}

\* The error message carries the id of the alias at position i.
AliasMergeNames(i) ==
    LET alias == Val(Val(calls[2].out.data.aliases)[i])
    IN  /\ TypeOf(alias.id) = "string"
        /\ ret.err.args[2] = Sprintf("Alias resource ID %q may be imported.", <<Val(alias.id)>>)

\* C5: in the merge case Create reads the entity, always returns an error and never
\* sets the local identity; when the entity has a matching alias, the error message
\* carries the id of a matching alias.
C5_AliasMergeCase ==
    AliasMergeCase =>
        /\ Len(calls) = 2
        /\ calls[2].verb = "Read"
        /\ calls[2].path = identityEntityIDPath(old.canonical_id)
        /\ ~IsPanic(ret.err)
        /\ ret.err.fmt = "IdentityEntityAlias %q already exists. %s"
        /\ ret.err.args[1] = old.name
        /\ d.id = ""
        /\ d = old
        /\ AliasMergeMatches # {} => \E i \in AliasMergeMatches : AliasMergeNames(i)

\* The merge case with a matching alias that has no id: Create panics.
C5_Witness ==
    /\ AliasMergeMatches # {}
    /\ \A i \in AliasMergeMatches : TypeOf(Val(Val(calls[2].out.data.aliases)[i]).id) = "nil"
    /\ ret.err = AssertPanic("string")

AliasOverlayKeys == {"name", "mount_accessor", "canonical_id"}

\* alias Update issued its write.
AliasUpdateWrote == resource = "alias" /\ ret.op = "Update" /\ Len(calls) >= 2

\* C6: alias Update first reads the object at the id path; what it then writes, to
\* the same path, holds for name, mount_accessor and canonical_id the description's
\* value when it is set and the value just read otherwise, and the description's
\* custom_metadata as a whole.
C6_AliasUpdateOverlay ==
    (resource = "alias" /\ ret.op = "Update") =>
        /\ calls # <<>>
        /\ calls[1].verb = "Read"
        /\ calls[1].path = "/identity/entity-alias/id/" \o old.id
        /\ AliasUpdateWrote =>
              /\ calls[1].out.kind = "obj"
              /\ calls[2].verb = "Write"
              /\ calls[2].path = calls[1].path
              /\ DOMAIN calls[2].data = AliasOverlayKeys \cup {"custom_metadata"}
              /\ \A k \in AliasOverlayKeys :
                    calls[2].data[k] =
                       IF old[k] # "" THEN StringValue(old[k]) ELSE calls[1].out.data[k]
              /\ calls[2].data.custom_metadata = MapValue(old.custom_metadata)

\* An update whose description sets only custom_metadata, against a remote object
\* with other metadata.
C6_Witness ==
    /\ AliasUpdateWrote
    /\ \A k \in AliasOverlayKeys :
          old[k] = "" /\ TypeOf(calls[2].data[k]) = "string" /\ Val(calls[2].data[k]) # ""
    /\ old.custom_metadata = [env |-> "dev"]
    /\ calls[1].out.data.custom_metadata = MapValue([env |-> "prod"])

AliasExistsOp == resource = "alias" /\ ret.op = "Exists"

AliasExistsReadsRightPath ==
    /\ Len(calls) = 1
    /\ calls[1].verb = "Read"
    /\ calls[1].path = IF old.id = ""
                       THEN "/identity/entity-alias/name/" \o old.name
                       ELSE "/identity/entity-alias/id/" \o old.id
    /\ d = old

\* C7 as stated: Exists reads the name path when the id is empty and the id path
\* otherwise, returns true if and only if the path resolves to an object, and
\* leaves the local state alone.
C7_AliasExistsIff ==
    AliasExistsOp =>
        /\ AliasExistsReadsRightPath
        /\ ret.exists <=> calls[1].out.kind = "obj"

\* C7 amended: the same, but a read that fails makes Exists return the error
\* together with true; the boolean says whether the path resolves only when no
\* error is returned.
C7_AliasExists ==
    AliasExistsOp =>
        /\ AliasExistsReadsRightPath
        /\ (calls[1].out.kind # "err") =>
              (ret.err = NoErr /\ (ret.exists <=> calls[1].out.kind = "obj"))
        /\ (calls[1].out.kind = "err") => (ret.err # NoErr /\ ret.exists)

C7_Witness ==
    /\ AliasExistsOp
    /\ old.id = ""
    /\ old.name = "alice"
    /\ calls[1].out.kind = "obj"
    /\ ret.exists

HandlerOp == ret.op \in {"Create", "Update", "Read", "Delete", "Exists"}

RoleDataKeys == {"organization", "team_id", "user_id", "max_ttl", "ttl"}

\* The local attributes equal the values of the remote object.
Mirrors(rd, data) ==
    /\ resource = "alias" => (TypeOf(data.id) = "string" /\ rd.id = Val(data.id))
    /\ \A k \in (IF resource = "role" THEN RoleDataKeys
                  ELSE {"name", "mount_accessor", "canonical_id", "custom_metadata"}) :
          IF TypeOf(data[k]) = "nil" THEN rd[k] = Zero(k)
          ELSE TypeOf(data[k]) = SchemaType(k) /\ rd[k] = Val(data[k])

\* The remote reads of the last handler that found an object.
FoundReads == { i \in 1..Len(calls) : calls[i].verb = "Read" /\ calls[i].out.kind = "obj" }

AbsentReads == { i \in 1..Len(calls) : calls[i].verb = "Read" /\ calls[i].out.kind = "nil" }

\* C8 as stated: every operation that returns success after a remote read found
\* the object leaves the local attributes equal to the object's values, and every
\* operation whose remote read found the object absent leaves the identity empty.
C8_AlwaysMirrors ==
    HandlerOp =>
        /\ (ret.err = NoErr /\ FoundReads # {}) =>
              Mirrors(d, calls[SetMax(FoundReads)].out.data)
        /\ (AbsentReads # {}) => d.id = ""

\* An alias Update whose first read finds no object: the handler dereferences the
\* nil response (line 337) and panics, the identity as it was.
C8_Witness ==
    /\ resource = "alias"
    /\ ret.op = "Update"
    /\ AbsentReads = {1}
    /\ ret.err = Panic
    /\ d.id = "a1"

\* role Create/Update issued its write.
RoleWrote == RoleWriteOp /\ calls # <<>> /\ calls[1].verb = "Write"

\* C9 as stated: the payload leaves out ttl (max_ttl) when the description's value
\* is 0 or not set, and holds it with the given value otherwise.
C9_ZeroTTLOmitted ==
    RoleWrote =>
        \A k \in {"ttl", "max_ttl"} :
            /\ old[k] = 0 => k \notin DOMAIN calls[1].data
            /\ old[k] # 0 => (k \in DOMAIN calls[1].data /\ calls[1].data[k] = old[k])

\* C9 amended: the payload written to {backend}/role/{name} always holds ttl and
\* max_ttl with the description's value: 0 when it is 0 or not set (which the
\* backend takes for its default), the given value otherwise.
C9_TTLAlwaysSent ==
    RoleWrote =>
        /\ calls[1].path =
              Trim(IF old.backend # "" THEN old.backend ELSE old.path, "/")
                 \o "/role/" \o old.name
        /\ \A k \in {"ttl", "max_ttl"} :
              k \in DOMAIN calls[1].data /\ calls[1].data[k] = old[k]

C9_Witness ==
    /\ RoleWrote
    /\ old.ttl = 0
    /\ old.max_ttl = 600
    /\ calls[1].data.ttl = 0
    /\ calls[1].path = "tfc/role/admin"

\* C10: in every handler, a remote call that returns an error is the last call
\* the handler issues, and the handler returns an error.
C10_ErrorsAreTerminal ==
    HandlerOp =>
        \A i \in 1..Len(calls) :
            calls[i].out.kind = "err" => (i = Len(calls) /\ ret.err # NoErr)

\* The merge case of alias Create, with the entity read failing.
C10_Witness ==
    /\ AliasMergeCase
    /\ Len(calls) = 2
    /\ calls[2].out.kind = "err"
    /\ ret.err # NoErr

=============================================================================
